---- MODULE Spec2Model ----
(***************************************************************************)
(* Model of the web-graph layout and interaction engine (src/src/graph.rs) *)
(* and of the lifecycle of the handle returned by Graph::run.              *)
(*                                                                         *)
(* f64 coordinates are modelled as fixed-point integers counting           *)
(* hundredths of a surface unit (5.0 is 500, 0.1 is 10).  Halving a size   *)
(* is exact in f64, so node sizes are even numbers of hundredths.          *)
(* HashMap iteration order is unspecified: every loop over a HashMap is a  *)
(* nondeterministic choice of the order.                                   *)
(***************************************************************************)
EXTENDS Integers, Sequences, FiniteSets, TLC

VARIABLES counter, nodes, edges, edges_rev, hovering, dragging,
          listeners, render_loop_refs, raf_pending, handle,
          ticks, events, edge_calls, last, pointer

vars == <<counter, nodes, edges, edges_rev, hovering, dragging,
          listeners, render_loop_refs, raf_pending, handle,
          ticks, events, edge_calls, last, pointer>>

graph_vars == <<counter, nodes, edges, edges_rev, hovering, dragging>>

run_vars == <<listeners, render_loop_refs, raf_pending, handle>>

----------------------------------------------------------------------------
(* Bounds of the model.                                                    *)

MaxNodes == 2

MaxEdgeCalls == 3

MaxTicks == 2

MaxEvents == 3

(* Program constants, in hundredths of a surface unit.                     *)

MAX_MOVE == 500

Epsilon == 10

(* n surface units as a fixed-point number.                                *)
U(n) == n * 100

(* Resolution of the unit vector (cos, sin) of a direction.                *)
TrigScale == 1000

----------------------------------------------------------------------------
(* Option<Node>.                                                           *)

None == <<>>

Some(n) == <<n>>

is_some(o) == o # None

unwrap(o) == o[1]

(* f64 helpers.                                                            *)

abs(v) == IF v < 0 THEN -v ELSE v

min(a, b) == IF a < b THEN a ELSE b

max(a, b) == IF a > b THEN a ELSE b

(* division of a fixed-point number, rounding toward zero                  *)
fdiv(a, b) == IF a >= 0 THEN a \div b ELSE -((-a) \div b)

(* the element of a one-element set.  An intermediate result is bound as
   a value by  the({ e(x) : x \in {v} }),  which reads  LET x == v IN e(x);
   the cost of evaluating e then does not depend on how often it uses x    *)
the(S) == CHOOSE x \in S : TRUE

(* bisection *)
RECURSIVE SqrtSearch(_, _, _)
SqrtSearch(n, lo, hi) ==
    the({ IF l >= h THEN l
          ELSE IF ((l + h + 1) \div 2) * ((l + h + 1) \div 2) <= v
               THEN SqrtSearch(v, (l + h + 1) \div 2, h)
               ELSE SqrtSearch(v, l, (l + h + 1) \div 2 - 1) :
          v \in {n}, l \in {lo}, h \in {hi} })

(* largest integer whose square is at most n                               *)
sqrt(n) == SqrtSearch(n, 0, 46340)

(* smallest integer whose square is at least n                             *)
sqrt_up(n) == the({ IF r * r = v THEN r ELSE r + 1 : r \in {sqrt(n)}, v \in {n} })

Pos(x, y) == [x |-> x, y |-> y]

Sz(w, h) == [width |-> w, height |-> h]

(* Position::delta *)
delta(self, other) ==
    sqrt((other.x - self.x) * (other.x - self.x)
         + (other.y - self.y) * (other.y - self.y))

(* (cos(atan2(dy, dx)), sin(atan2(dy, dx))) scaled by TrigScale; atan2(0,0)
   is 0.  Short vectors are magnified first to keep the resolution.        *)
direction(dx, dy) ==
    IF dx = 0 /\ dy = 0 THEN <<TrigScale, 0>>
    ELSE LET m  == IF abs(dx) <= 300 /\ abs(dy) <= 300 THEN 100 ELSE 1
             ex == dx * m
             ey == dy * m
         IN  the({ <<fdiv(ex * TrigScale, h), fdiv(ey * TrigScale, h)>> :
                   h \in {sqrt_up(ex * ex + ey * ey)} })

----------------------------------------------------------------------------
(* NodeState *)

(* a variant that excludes the border of the box                           *)
contains_strict(self, position) ==
    /\ position.x > self.position.x
    /\ position.y > self.position.y
    /\ position.x < self.position.x + self.size.width
    /\ position.y < self.position.y + self.size.height

contains(self, position) ==
    /\ position.x >= self.position.x
    /\ position.y >= self.position.y
    /\ position.x <= self.position.x + self.size.width
    /\ position.y <= self.position.y + self.size.height

(* a variant that puts the anchor, not the center, on the point            *)
set_centered_anchor(self, position) ==
    [self EXCEPT !.position = Pos(position.x, position.y)]

set_centered(self, position) ==
    [self EXCEPT !.position = Pos(position.x - self.size.width \div 2,
                                  position.y - self.size.height \div 2)]

center(self) ==
    Pos(self.position.x + self.size.width \div 2,
        self.position.y + self.size.height \div 2)

(* a variant without the clamp                                             *)
move_to_unclamped(self, amount, position) ==
    the({ [self EXCEPT !.position =
              Pos(self.position.x + fdiv(angle[1] * amount, TrigScale),
                  self.position.y + fdiv(angle[2] * amount, TrigScale))] :
          angle \in {direction(position.x - self.position.x,
                               position.y - self.position.y)} })

move_to(self, amount, position) ==
    the({ [self EXCEPT !.position =
              Pos(self.position.x + fdiv(angle[1] * amt, TrigScale),
                  self.position.y + fdiv(angle[2] * amt, TrigScale))] :
          amt   \in {max(min(amount, MAX_MOVE), -MAX_MOVE)},
          angle \in {direction(position.x - self.position.x,
                               position.y - self.position.y)} })

----------------------------------------------------------------------------
(* Graph: pure parts of the operations.                                    *)

(* a HashMap as a function on its key set                                  *)
EmptyMap == <<>>

insert(map, k, v) == [x \in DOMAIN map \cup {k} |-> IF x = k THEN v ELSE map[x]]

get_or_default(map, k) == IF k \in DOMAIN map THEN map[k] ELSE EmptyMap

(* Graph::add_node: the nodes after inserting the new state                *)
add_node_nodes(ns, id, position, size) ==
    insert(ns, id, [position |-> position, size |-> size])

(* a variant that stores the pair in the order given                       *)
add_edge_maps_unordered(es, rs, a, b, weight) ==
    IF a = b THEN <<es, rs>>
    ELSE <<insert(es, a, insert(get_or_default(es, a), b, weight)),
           insert(rs, b, insert(get_or_default(rs, b), a, weight))>>

(* a variant without the test for equal endpoints                          *)
add_edge_maps_selfloop(es, rs, a0, b0, weight) ==
    LET a == IF a0 < b0 THEN a0 ELSE b0
        b == IF a0 < b0 THEN b0 ELSE a0
    IN  <<insert(es, a, insert(get_or_default(es, a), b, weight)),
          insert(rs, b, insert(get_or_default(rs, b), a, weight))>>

(* Graph::add_edge: <<edges, edges_rev>> after the call                    *)
add_edge_maps(es, rs, a0, b0, weight) ==
    IF a0 = b0 THEN <<es, rs>>
    ELSE LET a == IF a0 < b0 THEN a0 ELSE b0
             b == IF a0 < b0 THEN b0 ELSE a0
         IN  <<insert(es, a, insert(get_or_default(es, a), b, weight)),
               insert(rs, b, insert(get_or_default(rs, b), a, weight))>>

(* Graph::first_node: the nodes find() may return, depending on the
   iteration order of the HashMap                                          *)
first_node(ns, position) ==
    IF \E n \in DOMAIN ns : contains(ns[n], position)
    THEN {Some(n) : n \in {m \in DOMAIN ns : contains(ns[m], position)}}
    ELSE {None}

(* a variant that moves both endpoints whatever is dragged                 *)
relax_edge_any(ns, from, to, weight, hov, drag) ==
    the({ IF abs(d) > Epsilon
          THEN the({ [ns1 EXCEPT ![to] =
                         move_to(@, fdiv(d, 2), center(ns1[from]))] :
                     ns1 \in {[ns EXCEPT ![from] =
                                  move_to(@, fdiv(d, 2), center(ns[to]))]} })
          ELSE ns :
          d \in {abs(delta(ns[from].position, ns[to].position)) - U(weight)} })

(* body of the inner loop of walk_edges for one edge                       *)
relax_edge(ns, from, to, weight, hov, drag) ==
    the({ IF abs(d) > Epsilon
          THEN the({ IF ~drag \/ hov # Some(to)
                     THEN [ns1 EXCEPT ![to] =
                              move_to(@, fdiv(d, 2), center(ns1[from]))]
                     ELSE ns1 :
                     ns1 \in {IF ~drag \/ hov # Some(from)
                              THEN [ns EXCEPT ![from] =
                                       move_to(@, fdiv(d, 2), center(ns[to]))]
                              ELSE ns} })
          ELSE ns :
          d \in {abs(delta(ns[from].position, ns[to].position)) - U(weight)} })

(* inner loop of walk_edges: the outcomes over all orders of the targets   *)
RECURSIVE walk_targets(_, _, _, _, _, _)
walk_targets(ns, es, from, tos, hov, drag) ==
    IF tos = {} THEN {ns}
    ELSE UNION { UNION { walk_targets(ns1, es, from, tos \ {to}, hov, drag) :
                         ns1 \in {relax_edge(ns, from, to, es[from][to],
                                             hov, drag)} } : to \in tos }

(* outer loop of walk_edges: the outcomes over all orders of the sources   *)
RECURSIVE walk_sources(_, _, _, _, _)
walk_sources(ns, es, froms, hov, drag) ==
    IF froms = {} THEN {ns}
    ELSE UNION { UNION { walk_sources(ns1, es, froms \ {from}, hov, drag) :
                         ns1 \in walk_targets(ns, es, from, DOMAIN es[from],
                                              hov, drag) } : from \in froms }

(* a variant that visits no edge                                           *)
walk_edges_skip(ns, es, hov, drag) == {ns}

walk_edges(ns, es, hov, drag) == walk_sources(ns, es, DOMAIN es, hov, drag)

(* a variant that also pulls the nodes without edges toward the origin     *)
tick_all_nodes(ns, es, hov, drag) ==
    { [n \in DOMAIN r |->
          IF n \in DOMAIN es \/ \E a \in DOMAIN es : n \in DOMAIN es[a]
          THEN r[n]
          ELSE move_to(r[n], MAX_MOVE, Pos(0, 0))] :
      r \in walk_edges(ns, es, hov, drag) }

(* Graph::tick *)
tick(ns, es, hov, drag) == walk_edges(ns, es, hov, drag)

(* the canvas' bounding client rect                                        *)
CanvasRect == [left |-> U(8), top |-> U(8)]

adjust_mouse_position(position) ==
    Pos(position.x - CanvasRect.left, position.y - CanvasRect.top)

----------------------------------------------------------------------------
(* Inputs.                                                                 *)

(* handles passed to add_edge: the ones add_node can issue and one more    *)
Handles == 0 .. MaxNodes

(* (position, size) arguments of add_node                                  *)
NodeInputs == { <<Pos(U(0), U(0)), Sz(U(50), U(50))>>,
                <<Pos(U(100), U(0)), Sz(U(150), U(50))>> }

(* EdgeProperties::weight, in surface units                                *)
Weights == {100, 150}

(* client coordinates of the mouse events                                  *)
ClientPoints == { Pos(U(8), U(8)), Pos(U(58), U(58)),
                  Pos(U(218), U(18)), Pos(U(128), U(208)) }

(* the state a handler starts from, kept for the properties                *)
Snapshot == [counter |-> counter, nodes |-> nodes, edges |-> edges,
             edges_rev |-> edges_rev, hovering |-> hovering,
             dragging |-> dragging, handle |-> handle]

Op(name, args) == [op |-> name, args |-> args, pre |-> Snapshot]

----------------------------------------------------------------------------
(* Construction: Graph::new and the calls of an initializer.               *)

NewGraph ==
    /\ counter = 0
    /\ nodes = EmptyMap
    /\ edges = EmptyMap
    /\ edges_rev = EmptyMap
    /\ hovering = None
    /\ dragging = FALSE

InitBuild ==
    /\ NewGraph
    /\ listeners = {}
    /\ render_loop_refs = 0
    /\ raf_pending = 0
    /\ handle = "none"
    /\ pointer = None
    /\ ticks = 0
    /\ events = 0
    /\ edge_calls = 0
    /\ last = [op |-> "new", args |-> <<>>,
               pre |-> [counter |-> 0, nodes |-> EmptyMap, edges |-> EmptyMap,
                        edges_rev |-> EmptyMap, hovering |-> None,
                        dragging |-> FALSE, handle |-> "none"]]

add_node ==
    /\ handle = "none"
    /\ counter < MaxNodes
    /\ \E in \in NodeInputs :
          /\ nodes' = add_node_nodes(nodes, counter, in[1], in[2])
          /\ last' = Op("add_node", <<in[1], in[2]>>)
    /\ counter' = counter + 1
    /\ UNCHANGED <<pointer, edges, edges_rev, hovering, dragging, run_vars,
                   ticks, events, edge_calls>>

remove_node ==
    /\ handle = "none"
    /\ \E n \in Handles : last' = Op("remove_node", <<n>>)
    /\ UNCHANGED <<pointer, graph_vars, run_vars, ticks, events, edge_calls>>

add_edge ==
    /\ handle = "none"
    /\ edge_calls < MaxEdgeCalls
    /\ \E a \in Handles, b \in Handles, w \in Weights :
          LET maps == add_edge_maps(edges, edges_rev, a, b, w)
          IN  /\ edges' = maps[1]
              /\ edges_rev' = maps[2]
              /\ last' = Op("add_edge", <<a, b, w>>)
    /\ edge_calls' = edge_calls + 1
    /\ UNCHANGED <<pointer, counter, nodes, hovering, dragging, run_vars,
                   ticks, events>>

remove_edge ==
    /\ handle = "none"
    /\ last' = Op("remove_edge", <<>>)
    /\ UNCHANGED <<pointer, graph_vars, run_vars, ticks, events, edge_calls>>

NextBuild == add_node \/ remove_node \/ add_edge \/ remove_edge

SpecBuild == InitBuild /\ [][NextBuild]_vars

----------------------------------------------------------------------------
(* The running widget: graph_canvas builds the graph with an initializer,  *)
(* calls run() and keeps the handle until the effect is cleaned up.        *)

RECURSIVE init_nodes(_, _)
init_nodes(ns, args) ==
    IF args = <<>> THEN ns
    ELSE init_nodes(add_node_nodes(ns, Cardinality(DOMAIN ns),
                                   Head(args)[1], Head(args)[2]), Tail(args))

RECURSIVE init_edges(_, _)
init_edges(maps, args) ==
    IF args = <<>> THEN maps
    ELSE init_edges(add_edge_maps(maps[1], maps[2], Head(args)[1],
                                  Head(args)[2], Head(args)[3]), Tail(args))

Box50 == Sz(U(50), U(50))

(* the add_node and add_edge calls of the initializers considered          *)
Initializers ==
    { (* two nodes, one edge that has to contract *)
      [nodes |-> << <<Pos(U(0), U(0)), Box50>>, <<Pos(U(200), U(0)), Box50>> >>,
       edges |-> << <<0, 1, 100>> >>],
      (* a triangle: every node has two edges *)
      [nodes |-> << <<Pos(U(0), U(0)), Box50>>, <<Pos(U(200), U(0)), Box50>>,
                    <<Pos(U(200), U(40)), Box50>> >>,
       edges |-> << <<0, 1, 100>>, <<2, 0, 100>>, <<1, 2, 100>> >>],
      (* nodes of different sizes, centers 150 apart, anchors 100 apart *)
      [nodes |-> << <<Pos(U(0), U(0)), Box50>>,
                    <<Pos(U(100), U(0)), Sz(U(150), U(50))>> >>,
       edges |-> << <<1, 0, 150>> >>],
      (* a settled edge and an unconnected node overlapping node 0 *)
      [nodes |-> << <<Pos(U(0), U(0)), Box50>>, <<Pos(U(100), U(0)), Box50>>,
                    <<Pos(U(30), U(30)), Box50>> >>,
       edges |-> << <<0, 1, 100>> >>] }

EventTypes == {"mousedown", "mouseup", "mouseout", "mousemove"}

(* the state after Graph::new, the initializer and Graph::run: four
   listeners, the closure held by f and g, one frame requested, the handle
   in the hands of the component                                           *)
init_with(initializers) ==
    /\ \E i \in initializers :
          LET maps == init_edges(<<EmptyMap, EmptyMap>>, i.edges)
          IN  /\ counter = Len(i.nodes)
              /\ nodes = init_nodes(EmptyMap, i.nodes)
              /\ edges = maps[1]
              /\ edges_rev = maps[2]
              /\ edge_calls = Len(i.edges)
    /\ hovering = None
    /\ dragging = FALSE
    /\ listeners = EventTypes
    /\ render_loop_refs = 2
    /\ raf_pending = 1
    /\ handle = "held"
    /\ pointer = None
    /\ ticks = 0
    /\ events = 0
    /\ last = [op |-> "run", args |-> <<>>,
               pre |-> [counter |-> counter, nodes |-> nodes, edges |-> edges,
                        edges_rev |-> edges_rev, hovering |-> None,
                        dragging |-> FALSE, handle |-> "none"]]

Init == init_with(Initializers)

(* mouse_move, first block: the nodes after a possible recentering         *)
move_nodes(ns, hov, drag, position) ==
    IF is_some(hov) /\ unwrap(hov) \in DOMAIN ns /\ drag
    THEN [ns EXCEPT ![unwrap(hov)] = set_centered(@, position)]
    ELSE ns

(* a variant that searches again on every move while nothing is dragged    *)
move_hover_research(ns, hov, drag, position) ==
    IF is_some(hov) /\ ~drag THEN None ELSE hov

(* mouse_move, first block: the selection kept or lost                     *)
move_hover(ns, hov, drag, position) ==
    IF is_some(hov) /\ unwrap(hov) \in DOMAIN ns /\ ~drag
       /\ ~contains(ns[unwrap(hov)], position)
    THEN None
    ELSE hov

(* Graph::mouse_move for one event                                          *)
mouse_move_at(client) ==
    /\ "mousemove" \in listeners
    /\ events < MaxEvents
    /\ events' = events + 1
    /\ LET position == adjust_mouse_position(client)
           ns1  == move_nodes(nodes, hovering, dragging, position)
           hov1 == move_hover(nodes, hovering, dragging, position)
       IN  /\ nodes' = ns1
           /\ IF hov1 = None
              THEN hovering' \in first_node(ns1, position)
              ELSE hovering' = hov1
           /\ last' = Op("mouse_move", <<position>>)
           /\ pointer' = Some(position)
    /\ UNCHANGED <<counter, edges, edges_rev, dragging, run_vars, ticks,
                   edge_calls>>

mouse_move == \E client \in ClientPoints : mouse_move_at(client)

(* a variant that starts a drag without looking at the hover target       *)
mouse_down_always ==
    /\ "mousedown" \in listeners
    /\ events < MaxEvents
    /\ events' = events + 1
    /\ dragging' = TRUE
    /\ last' = Op("mouse_down", <<>>)
    /\ UNCHANGED <<pointer, counter, nodes, edges, edges_rev, hovering,
                   run_vars, ticks, edge_calls>>

(* a variant with the test of the hover target inverted                    *)
mouse_down_inverted ==
    /\ "mousedown" \in listeners
    /\ events < MaxEvents
    /\ events' = events + 1
    /\ dragging' = ~is_some(hovering)
    /\ last' = Op("mouse_down", <<>>)
    /\ UNCHANGED <<pointer, counter, nodes, edges, edges_rev, hovering,
                   run_vars, ticks, edge_calls>>

mouse_down ==
    /\ "mousedown" \in listeners
    /\ events < MaxEvents
    /\ events' = events + 1
    /\ dragging' = is_some(hovering)
    /\ last' = Op("mouse_down", <<>>)
    /\ UNCHANGED <<pointer, counter, nodes, edges, edges_rev, hovering,
                   run_vars, ticks, edge_calls>>

(* a variant that also forgets the hover target                            *)
mouse_up_clears_hover ==
    /\ "mouseup" \in listeners
    /\ events < MaxEvents
    /\ events' = events + 1
    /\ dragging' = FALSE
    /\ hovering' = None
    /\ last' = Op("mouse_up", <<>>)
    /\ UNCHANGED <<pointer, counter, nodes, edges, edges_rev, run_vars,
                   ticks, edge_calls>>

mouse_up ==
    /\ "mouseup" \in listeners
    /\ events < MaxEvents
    /\ events' = events + 1
    /\ dragging' = FALSE
    /\ last' = Op("mouse_up", <<>>)
    /\ UNCHANGED <<pointer, counter, nodes, edges, edges_rev, hovering,
                   run_vars, ticks, edge_calls>>

(* a variant that clears the hover target only                             *)
mouse_out_keeps_drag ==
    /\ "mouseout" \in listeners
    /\ events < MaxEvents
    /\ events' = events + 1
    /\ hovering' = None
    /\ last' = Op("mouse_out", <<>>)
    /\ UNCHANGED <<pointer, counter, nodes, edges, edges_rev, dragging,
                   run_vars, ticks, edge_calls>>

mouse_out ==
    /\ "mouseout" \in listeners
    /\ events < MaxEvents
    /\ events' = events + 1
    /\ dragging' = FALSE
    /\ hovering' = None
    /\ last' = Op("mouse_out", <<>>)
    /\ UNCHANGED <<pointer, counter, nodes, edges, edges_rev, run_vars,
                   ticks, edge_calls>>

(* the outcomes of get_context("2d") in Graph::draw                        *)
Contexts == {"2d", "missing"}

(* Graph::draw: the error it returns                                       *)
draw_error(ctx) == IF ctx = "2d" THEN "none" ELSE "MissingContext"

(* draw, one edge: begin_path, move_to, line_to, stroke                    *)
edge_line(ns, from, to) ==
    [op |-> "line", edge |-> <<from, to>>,
     from |-> center(ns[from]), to |-> center(ns[to])]

(* draw, one node: fill_rect, set_line_width, rect, stroke                 *)
node_rect(ns, id, hov) ==
    [op |-> "rect", node |-> id, position |-> ns[id].position,
     size |-> ns[id].size, line_width |-> IF hov = Some(id) THEN 5 ELSE 1]

(* draw, inner loop over the edges of one node, in every order             *)
RECURSIVE draw_targets(_, _, _)
draw_targets(ns, from, tos) ==
    IF tos = {} THEN {<<>>}
    ELSE UNION { { <<edge_line(ns, from, to)>> \o rest :
                   rest \in draw_targets(ns, from, tos \ {to}) } : to \in tos }

(* draw, loop over self.edges, in every order                              *)
RECURSIVE draw_sources(_, _, _)
draw_sources(ns, es, froms) ==
    IF froms = {} THEN {<<>>}
    ELSE UNION { { lines \o rest :
                   lines \in draw_targets(ns, from, DOMAIN es[from]),
                   rest \in draw_sources(ns, es, froms \ {from}) } :
                 from \in froms }

(* draw, loop over self.nodes, in every order                              *)
RECURSIVE draw_nodes(_, _, _)
draw_nodes(ns, ids, hov) ==
    IF ids = {} THEN {<<>>}
    ELSE UNION { { <<node_rect(ns, id, hov)>> \o rest :
                   rest \in draw_nodes(ns, ids \ {id}, hov) } : id \in ids }

(* a variant that draws the nodes first                                    *)
draw_nodes_first(ctx, ns, es, hov) ==
    IF draw_error(ctx) # "none" THEN {<<>>}
    ELSE { rects \o lines : lines \in draw_sources(ns, es, DOMAIN es),
                            rects \in draw_nodes(ns, DOMAIN ns, hov) }

(* Graph::draw: the sequences of drawing operations it can issue           *)
draw(ctx, ns, es, hov) ==
    IF draw_error(ctx) # "none" THEN {<<>>}
    ELSE { lines \o rects : lines \in draw_sources(ns, es, DOMAIN es),
                            rects \in draw_nodes(ns, DOMAIN ns, hov) }

(* a variant that does not register the callback again                    *)
request_animation_frame_lost(pending) == pending

(* request_animation_frame: the callbacks pending after the request        *)
request_animation_frame(pending) == pending + 1

(* the animation-frame closure for one callback: tick and draw unless the
   graph is borrowed, then request the next frame                          *)
frame(busy, ctx) ==
    /\ raf_pending > 0
    /\ render_loop_refs > 0
    /\ IF busy
       THEN /\ nodes' = nodes
            /\ last' = Op("skip", <<>>)
       ELSE /\ nodes' \in tick(nodes, edges, hovering, dragging)
            /\ last' = Op("tick", <<draw_error(ctx)>>)
    /\ raf_pending' = request_animation_frame(raf_pending - 1)
    /\ UNCHANGED <<pointer, counter, edges, edges_rev, hovering, dragging,
                   listeners, render_loop_refs, handle, events, edge_calls>>

(* a frame of the running widget: the graph is free and the canvas has a
   context                                                                 *)
render_loop ==
    /\ ticks < MaxTicks
    /\ ticks' = ticks + 1
    /\ frame(FALSE, "2d")

(* the effect cleanup of graph_canvas: drop(handle)                        *)
drop_handle ==
    /\ handle = "held"
    /\ handle' = "dropped"
    /\ listeners' = {}
    /\ render_loop_refs' = render_loop_refs - 1
    /\ last' = Op("drop", <<>>)
    /\ UNCHANGED <<pointer, graph_vars, raf_pending, ticks, events, edge_calls>>

Next ==
    \/ mouse_move
    \/ mouse_down
    \/ mouse_up
    \/ mouse_out
    \/ render_loop
    \/ drop_handle

Spec == Init /\ [][Next]_vars

----------------------------------------------------------------------------
(* Layout alone: two nodes and one edge, frames for ever and no pointer.   *)

LayoutWeights == {100, 120, 140, 160, 180, 200, 220, 240, 260, 280, 300,
                  320, 340, 360, 380}

LayoutInitializers ==
    { [nodes |-> << <<Pos(U(0), U(0)), Box50>>, <<Pos(U(200), U(0)), Box50>> >>,
       edges |-> << <<0, 1, w>> >>] : w \in LayoutWeights }

InitLayout == init_with(LayoutInitializers)

layout_frame == frame(FALSE, "2d") /\ UNCHANGED ticks

NextLayout == layout_frame

(* every callback requests the next frame, so frames keep coming           *)
SpecLayout == InitLayout /\ [][NextLayout]_vars /\ WF_vars(layout_frame)

----------------------------------------------------------------------------
(* Frames of every outcome: the graph borrowed or free, the canvas with   *)
(* or without a 2d context.                                                *)

any_frame ==
    /\ ticks < MaxTicks
    /\ ticks' = ticks + 1
    /\ \E busy \in BOOLEAN, ctx \in Contexts : frame(busy, ctx)

NextFrames ==
    \/ any_frame
    \/ mouse_move
    \/ drop_handle

SpecFrames == Init /\ [][NextFrames]_vars

----------------------------------------------------------------------------
(* Hit-testing: pointer events on the corners of the boxes and one unit    *)
(* outside them, no animation frame in between.                            *)

HitClientPoints == { Pos(U(8), U(8)), Pos(U(7), U(8)), Pos(U(8), U(7)),
                     Pos(U(58), U(58)), Pos(U(59), U(58)), Pos(U(58), U(59)),
                     Pos(U(258), U(58)), Pos(U(259), U(58)) }

hit_test == \E client \in HitClientPoints : mouse_move_at(client)

NextHit ==
    \/ hit_test
    \/ mouse_down
    \/ mouse_up
    \/ mouse_out

SpecHit == Init /\ [][NextHit]_vars

----------------------------------------------------------------------------
(* Properties.                                                             *)

(* the node that was being dragged when the last handler started          *)
DragTarget == unwrap(last.pre.hovering)

(* incident edges of a node                                                *)
Degree(n) ==
    Cardinality({e \in UNION {{<<a, b>> : b \in DOMAIN edges[a]} :
                                a \in DOMAIN edges} : n \in {e[1], e[2]}})

(* squared length of the move of node n in the last step                   *)
Moved2(n) ==
    LET dx == nodes[n].position.x - last.pre.nodes[n].position.x
        dy == nodes[n].position.y - last.pre.nodes[n].position.y
    IN  dx * dx + dy * dy

(* C1: in every reachable state, dragging implies that hovering is Some(n)
   for a node n of the model.                                              *)
C1_DraggingImpliesHovering ==
    dragging => /\ is_some(hovering)
                /\ unwrap(hovering) \in DOMAIN nodes

C1_Witness ==
    /\ dragging
    /\ last.op = "tick"
    /\ events >= 3

(* C2: a tick that runs while node N is dragged leaves the position of N
   unchanged.                                                              *)
C2_TickKeepsDragTarget ==
    (last.op = "tick" /\ last.pre.dragging) =>
        nodes[DragTarget] = last.pre.nodes[DragTarget]

C2_Witness ==
    /\ last.op = "tick"
    /\ last.pre.dragging
    /\ nodes[DragTarget] = last.pre.nodes[DragTarget]
    /\ \E m \in DOMAIN nodes :
          /\ m < DragTarget
          /\ DragTarget \in DOMAIN get_or_default(edges, m)
          /\ nodes[m] # last.pre.nodes[m]
    /\ \E m \in DOMAIN nodes :
          /\ m > DragTarget
          /\ m \in DOMAIN get_or_default(edges, DragTarget)
          /\ nodes[m] # last.pre.nodes[m]

(* C3: a pointer move to (X,Y) while node N is dragged puts the center of
   N on (X,Y), keeps hovering = Some(N) and dragging = true and moves no
   other node.                                                             *)
C3_DragRecenters ==
    (last.op = "mouse_move" /\ last.pre.dragging) =>
        /\ center(nodes[DragTarget]) = last.args[1]
        /\ hovering = Some(DragTarget)
        /\ dragging
        /\ \A m \in DOMAIN nodes \ {DragTarget} : nodes[m] = last.pre.nodes[m]
        /\ DOMAIN nodes = DOMAIN last.pre.nodes

C3_Witness ==
    /\ last.op = "mouse_move"
    /\ last.pre.dragging
    /\ ~contains(last.pre.nodes[DragTarget], last.args[1])
    /\ center(nodes[DragTarget]) = last.args[1]
    /\ Cardinality(DOMAIN nodes) > 1

(* C4: once the handle is dropped no handler runs any more: the drop stays
   the last operation.                                                     *)
C4_NoCallbackAfterRelease ==
    handle = "dropped" => last.op = "drop"

(* C5: a second add_edge for a pair that already has an edge leaves the
   first weight in place.                                                  *)
C5_FirstWeightWins ==
    LET a == min(last.args[1], last.args[2])
        b == max(last.args[1], last.args[2])
    IN  (/\ last.op = "add_edge"
         /\ a # b
         /\ b \in DOMAIN get_or_default(last.pre.edges, a)) =>
            edges[a][b] = last.pre.edges[a][b]

(* C6: every forward entry edges[a][b] has a < b, and it exists exactly
   when the reverse entry edges_rev[b][a] exists, with the same weight.    *)
C6_CanonicalEdges ==
    /\ \A a \in DOMAIN edges : \A b \in DOMAIN edges[a] :
          /\ a < b
          /\ b \in DOMAIN edges_rev
          /\ a \in DOMAIN edges_rev[b]
          /\ edges_rev[b][a] = edges[a][b]
    /\ \A b \in DOMAIN edges_rev : \A a \in DOMAIN edges_rev[b] :
          /\ a \in DOMAIN edges
          /\ b \in DOMAIN edges[a]

C6_Witness ==
    /\ last.op = "add_edge"
    /\ last.args[1] > last.args[2]
    /\ last.args[1] \in DOMAIN get_or_default(last.pre.edges, last.args[2])
    /\ last.pre.edges[last.args[2]][last.args[1]] # last.args[3]

(* C7: add_edge(a, a, w) changes nothing.                                  *)
C7_SelfLoopIsNoOp ==
    (last.op = "add_edge" /\ last.args[1] = last.args[2]) =>
        /\ counter = last.pre.counter
        /\ nodes = last.pre.nodes
        /\ edges = last.pre.edges
        /\ edges_rev = last.pre.edges_rev
        /\ hovering = last.pre.hovering
        /\ dragging = last.pre.dragging

C7_Witness ==
    /\ last.op = "add_edge"
    /\ last.args[1] = last.args[2]
    /\ edges # EmptyMap
    /\ last.args[1] \in DOMAIN nodes

(* C8 as stated: no node moves by more than 5.0 in one tick.               *)
C8_TickMovesAtMostMaxMove ==
    last.op = "tick" =>
        \A n \in DOMAIN nodes : Moved2(n) <= MAX_MOVE * MAX_MOVE

(* C8 amended: in one tick a node moves by at most 5.0 for each edge it is
   an endpoint of.                                                         *)
C8_TickMovesAtMostMaxMovePerEdge ==
    last.op = "tick" =>
        \A n \in DOMAIN nodes :
            Moved2(n) <= (MAX_MOVE * Degree(n)) * (MAX_MOVE * Degree(n))

C8_Witness ==
    /\ last.op = "tick"
    /\ \E n \in DOMAIN nodes :
          /\ Degree(n) = 2
          /\ Moved2(n) > MAX_MOVE * MAX_MOVE

(* C9: a tick started with every edge within 0.1 of its rest length,
   measured between the centers, moves no node.                            *)
C9_SettledByCentersIsFixpoint ==
    (/\ last.op = "tick"
     /\ \A a \in DOMAIN edges : \A b \in DOMAIN edges[a] :
           abs(delta(center(last.pre.nodes[a]), center(last.pre.nodes[b]))
               - U(edges[a][b])) <= Epsilon) =>
        nodes = last.pre.nodes

(* C10: mouse_out leaves hovering = None and dragging = false, and
   dragging becomes true in a mouse_down step only.                        *)
C10_LeaveResetsAndOnlyDownDrags ==
    /\ last.op = "mouse_out" => (hovering = None /\ ~dragging)
    /\ (dragging /\ ~last.pre.dragging) => last.op = "mouse_down"

C10_Witness ==
    /\ last.op = "mouse_out"
    /\ last.pre.dragging
    /\ is_some(last.pre.hovering)
    /\ ticks > 0

(* C11: mouse_down while hovering node n starts dragging n; mouse_down
   without a hover target changes neither hovering, dragging nor any
   node.                                                                   *)
C11_DownDragsHovered ==
    last.op = "mouse_down" =>
        /\ hovering = last.pre.hovering
        /\ nodes = last.pre.nodes
        /\ is_some(last.pre.hovering) => dragging
        /\ ~is_some(last.pre.hovering) => dragging = last.pre.dragging

C11_Witness ==
    /\ last.op = "mouse_down"
    /\ is_some(last.pre.hovering)
    /\ ~last.pre.dragging
    /\ dragging
    /\ hovering = last.pre.hovering

(* C12: mouse_up sets dragging to false and leaves hovering, the nodes
   (positions and sizes) and the edges unchanged.                          *)
C12_UpOnlyClearsDragging ==
    last.op = "mouse_up" =>
        /\ ~dragging
        /\ hovering = last.pre.hovering
        /\ nodes = last.pre.nodes
        /\ edges = last.pre.edges
        /\ edges_rev = last.pre.edges_rev

C12_Witness ==
    /\ last.op = "mouse_up"
    /\ last.pre.dragging
    /\ is_some(hovering)
    /\ ~dragging

(* the point lies in the box of the node, borders included                 *)
InBox(n, p) ==
    /\ nodes[n].position.x <= p.x
    /\ p.x <= nodes[n].position.x + nodes[n].size.width
    /\ nodes[n].position.y <= p.y
    /\ p.y <= nodes[n].position.y + nodes[n].size.height

(* the point is a corner of the box of the node                            *)
IsCorner(n, p) ==
    \/ p = nodes[n].position
    \/ p = Pos(nodes[n].position.x + nodes[n].size.width,
               nodes[n].position.y + nodes[n].size.height)

(* the point is one unit outside the box of the node                       *)
OneUnitOutside(n, p) ==
    \/ p.x = nodes[n].position.x - U(1)
    \/ p.y = nodes[n].position.y - U(1)
    \/ p.x = nodes[n].position.x + nodes[n].size.width + U(1)
    \/ p.y = nodes[n].position.y + nodes[n].size.height + U(1)

(* the hover search ran in the last mouse_move                             *)
Searched ==
    /\ last.op = "mouse_move"
    /\ ~last.pre.dragging
    /\ \/ last.pre.hovering = None
       \/ ~InBox(unwrap(last.pre.hovering), last.args[1])

(* C13: the hit test returns Some(n) only for a node whose box, borders
   included, holds the point, and None only when no box holds it; a corner
   of a box that no other box holds hits its node, and a point one unit
   outside a box never returns its node.                                   *)
C13_HitTestInclusive ==
    Searched =>
        LET p == last.args[1]
        IN  /\ is_some(hovering) => InBox(unwrap(hovering), p)
            /\ hovering = None => \A n \in DOMAIN nodes : ~InBox(n, p)
            /\ \A n \in DOMAIN nodes :
                  /\ (IsCorner(n, p)
                      /\ \A m \in DOMAIN nodes \ {n} : ~InBox(m, p))
                     => hovering = Some(n)
                  /\ OneUnitOutside(n, p) => hovering # Some(n)

C13_Witness ==
    /\ Searched
    /\ is_some(hovering)
    /\ last.args[1] = Pos(nodes[unwrap(hovering)].position.x
                            + nodes[unwrap(hovering)].size.width,
                          nodes[unwrap(hovering)].position.y
                            + nodes[unwrap(hovering)].size.height)
    /\ \A m \in DOMAIN nodes \ {unwrap(hovering)} : ~InBox(m, last.args[1])

(* squared distance between the centers of nodes 0 and 1                   *)
CenterDistance2 ==
    the({ (b.x - a.x) * (b.x - a.x) + (b.y - a.y) * (b.y - a.y) :
          a \in {center(nodes[0])}, b \in {center(nodes[1])} })

(* the distance of the centers of nodes 0 and 1 is within 0.2 of the rest
   length of their edge                                                    *)
Settled ==
    the({ /\ (U(w) - 2 * Epsilon) * (U(w) - 2 * Epsilon) <= c
          /\ c <= (U(w) + 2 * Epsilon) * (U(w) + 2 * Epsilon) :
          w \in {edges[0][1]}, c \in {CenterDistance2} })

(* the last tick moved no node by more than 5.0                            *)
StepWithinMaxMove ==
    last.op = "tick" =>
        (Moved2(0) <= MAX_MOVE * MAX_MOVE /\ Moved2(1) <= MAX_MOVE * MAX_MOVE)

(* C14: with two nodes at (0,0) and (200,0) of size (50,50) and one edge,
   under ticks alone the distance of the centers is eventually within 0.2
   of the weight for ever, and no tick moves a node by more than 5.0.      *)
C14_LayoutConverges == <>[]Settled /\ []StepWithinMaxMove

C14_Witness ==
    /\ edges[0][1] = 100
    /\ last.op = "tick"
    /\ Settled
    /\ nodes = last.pre.nodes
    /\ nodes[0].position # Pos(U(0), U(0))

(* C15: a tick leaves hovering, dragging, the node set, the node sizes, the
   edge set and the edge weights unchanged, and leaves every node without
   an incident edge where it was.                                          *)
C15_TickOnlyMovesEndpoints ==
    last.op = "tick" =>
        /\ hovering = last.pre.hovering
        /\ dragging = last.pre.dragging
        /\ counter = last.pre.counter
        /\ DOMAIN nodes = DOMAIN last.pre.nodes
        /\ \A n \in DOMAIN nodes : nodes[n].size = last.pre.nodes[n].size
        /\ edges = last.pre.edges
        /\ edges_rev = last.pre.edges_rev
        /\ \A n \in DOMAIN nodes :
              Degree(n) = 0 => nodes[n].position = last.pre.nodes[n].position

C15_Witness ==
    /\ last.op = "tick"
    /\ \E n \in DOMAIN nodes :
          /\ Degree(n) = 0
          /\ nodes[n].position = last.pre.nodes[n].position
          /\ nodes[n].position # Pos(0, 0)
    /\ \E m \in DOMAIN nodes : nodes[m].position # last.pre.nodes[m].position

(* the box of the hover target contains the last reported pointer position *)
HoverUnderPointer ==
    /\ is_some(pointer)
    /\ unwrap(hovering) \in DOMAIN nodes
    /\ contains(nodes[unwrap(hovering)], unwrap(pointer))

(* C16: whenever hovering is Some(n) and dragging is false, the box of n
   contains the most recently reported pointer position, and a mouse_down
   that starts a drag starts it on a node under the pointer.               *)
C16_HoverContainsPointer ==
    /\ (is_some(hovering) /\ ~dragging) => HoverUnderPointer
    /\ (last.op = "mouse_down" /\ dragging) => HoverUnderPointer

(* C17: a mouse_move to p while nothing is dragged keeps a hover target
   that still contains p, also when another node contains p; otherwise
   hovering becomes Some(m) for a node m containing p, or None when no node
   contains p; no node position changes.                                   *)
C17_MoveKeepsOrSearchesHover ==
    (last.op = "mouse_move" /\ ~last.pre.dragging) =>
        LET p  == last.args[1]
            h  == last.pre.hovering
            ns == last.pre.nodes
        IN  /\ nodes = ns
            /\ IF is_some(h) /\ contains(ns[unwrap(h)], p)
               THEN hovering = h
               ELSE \/ /\ is_some(hovering)
                       /\ unwrap(hovering) \in DOMAIN ns
                       /\ contains(ns[unwrap(hovering)], p)
                    \/ /\ hovering = None
                       /\ \A m \in DOMAIN ns : ~contains(ns[m], p)

C17_Witness ==
    /\ last.op = "mouse_move"
    /\ ~last.pre.dragging
    /\ is_some(last.pre.hovering)
    /\ hovering = last.pre.hovering
    /\ \E m \in DOMAIN nodes \ {unwrap(hovering)} :
          contains(nodes[m], last.args[1])

(* the graph as the last step found it                                     *)
GraphUnchanged ==
    /\ counter = last.pre.counter
    /\ nodes = last.pre.nodes
    /\ edges = last.pre.edges
    /\ edges_rev = last.pre.edges_rev
    /\ hovering = last.pre.hovering
    /\ dragging = last.pre.dragging

(* the last step ran the layout step on the graph it found                 *)
TickRan ==
    nodes \in tick(last.pre.nodes, last.pre.edges, last.pre.hovering,
                   last.pre.dragging)

(* C18: while the handle is held every frame callback requests exactly one
   next frame, so that one frame is pending after it; a frame that finds
   the graph borrowed leaves the graph unchanged, and a frame whose draw
   fails for a missing context has run the layout step.                    *)
C18_FrameAlwaysRearms ==
    handle = "held" =>
        /\ raf_pending = 1
        /\ last.op = "skip" => GraphUnchanged
        /\ (last.op = "tick" /\ last.args[1] = "MissingContext") => TickRan

C18_Witness ==
    /\ handle = "held"
    /\ ticks = MaxTicks
    /\ raf_pending = 1
    /\ last.op = "tick"
    /\ last.args[1] = "MissingContext"
    /\ nodes # last.pre.nodes
    /\ is_some(hovering)

(* C19: after any sequence of add_node and add_edge calls, with any two
   distinct handles passed to add_edge, both endpoints of every stored
   edge are keys of the node map, so that the lookups of tick and draw
   find them.                                                              *)
C19_EdgeEndpointsAreNodes ==
    /\ \A a \in DOMAIN edges :
          a \in DOMAIN nodes /\ DOMAIN edges[a] \subseteq DOMAIN nodes
    /\ \A b \in DOMAIN edges_rev :
          b \in DOMAIN nodes /\ DOMAIN edges_rev[b] \subseteq DOMAIN nodes

(* the positions of the operations of one kind in a drawing sequence       *)
OpsOf(seq, kind) == {i \in DOMAIN seq : seq[i].op = kind}

(* C20: in the drawing sequence of a frame every edge line comes before
   every node rectangle, every stored edge is drawn exactly once, between
   the centers of its endpoints, and every node is outlined once, with
   width 5 if it is the hover target and width 1 otherwise.                *)
C20_EdgesBeforeNodes ==
    (last.op = "tick" /\ last.args[1] = "none") =>
        \A seq \in draw("2d", nodes, edges, hovering) :
            /\ \A i \in OpsOf(seq, "line"), j \in OpsOf(seq, "rect") : i < j
            /\ \A i \in OpsOf(seq, "line") :
                  /\ seq[i].edge[1] \in DOMAIN edges
                  /\ seq[i].edge[2] \in DOMAIN edges[seq[i].edge[1]]
                  /\ seq[i].from = center(nodes[seq[i].edge[1]])
                  /\ seq[i].to = center(nodes[seq[i].edge[2]])
            /\ \A a \in DOMAIN edges : \A b \in DOMAIN edges[a] :
                  Cardinality({i \in OpsOf(seq, "line") :
                                  seq[i].edge = <<a, b>>}) = 1
            /\ \A n \in DOMAIN nodes :
                  Cardinality({i \in OpsOf(seq, "rect") :
                                  seq[i].node = n}) = 1
            /\ \A i \in OpsOf(seq, "rect") :
                  /\ seq[i].node \in DOMAIN nodes
                  /\ seq[i].line_width = 5 <=> hovering = Some(seq[i].node)
                  /\ seq[i].line_width \in {1, 5}
            /\ DOMAIN seq = OpsOf(seq, "line") \cup OpsOf(seq, "rect")

C20_Witness ==
    /\ last.op = "tick"
    /\ last.args[1] = "none"
    /\ is_some(hovering)
    /\ nodes # last.pre.nodes
    /\ \E seq \in draw("2d", nodes, edges, hovering) :
          /\ Cardinality(OpsOf(seq, "line")) = 3
          /\ Cardinality(OpsOf(seq, "rect")) = 3
          /\ \E i \in OpsOf(seq, "rect") : seq[i].line_width = 5
          /\ \E i \in OpsOf(seq, "rect") : seq[i].line_width = 1

====
